---------------------------- MODULE Spec2Model ----------------------------
(***************************************************************************)
(* A model of fipy's UniformGrid3D mesh (fipy/meshes/numMesh/              *)
(* uniformGrid3D.py): the indexing scheme, the topology tables and the     *)
(* geometry tables derived from (nx, ny, nz), (dx, dy, dz) and origin, the *)
(* nearest-cell locator, the derived meshes (_translate, __mul__) and the  *)
(* constructor called with arguments of any sign.                          *)
(*                                                                         *)
(* Arrays are functions over zero-based indices.  An array of shape        *)
(* (m, count) is a function of the row whose values are functions of the   *)
(* column.  A masked array is a record [data, mask] of two such arrays.    *)
(*                                                                         *)
(* Floating-point lengths are exact multiples of a quantum q: a spacing    *)
(* is an even multiple of q, so that dx / 2. and (i + 0.5) * dx are again  *)
(* multiples of q; the model stores the multiple.                          *)
(***************************************************************************)
EXTENDS Integers, Sequences, FiniteSets, TLC

\* Bounds of the model
MaxN == 3
    \* cell counts nx, ny, nz range over 1..MaxN
MaxD == 2
    \* spacings range over even multiples of the quantum up to 2*MaxD + 4
MaxO == 1
    \* the origin is zero or one of MaxO non-zero offsets
MaxLocN == 2
    \* cell counts of the meshes the locator is called on
MaxP == 5
    \* coordinates of the points located range over -MaxP..MaxP quanta
MaxT == 2
    \* translation vectors are the multiples -MaxT..MaxT of (1, -2, 3) quanta
MaxS == 3
    \* scaling factors range over 1..MaxS
MaxArg == 1
    \* constructor arguments of any sign: counts range over -MaxArg..MaxArg,
    \* spacings over the even multiples -2*MaxArg..2*MaxArg of the quantum
MaxAddN == 3
    \* cell counts per axis of the meshes a face variable is summed over
MaxOut == 2
    \* those meshes have at most 6 + MaxOut cells
MaxJunk == 1
    \* a read outside an array yields a value in -MaxJunk..MaxJunk


VARIABLES
    mesh,   \* the UniformGrid3D object: its fields after __init__
    op,     \* the method called last ("__init__" after construction)
    arg,    \* the argument of that call (<<>> when it takes none)
    ret     \* the value that call returned

vars == <<mesh, op, arg, ret>>

---------------------------------------------------------------------------
\* numerix (numpy) array primitives, as the code uses them

\* numerix.arange(lo, hi)
arange(lo, hi) ==
    [t \in 0..(hi - lo - 1) |-> lo + t]

\* (mutant of reshapeSwap: a.reshape((n1, n2, n3)), the axes not swapped)
reshapeSwap_noSwap(a, n1, n2, n3) ==
    [i \in 0..(n1 - 1), j \in 0..(n2 - 1), k \in 0..(n3 - 1) |->
        a[(i * n2 + j) * n3 + k]]

\* a.reshape((n3, n2, n1)).swapaxes(0,2): the result, of shape (n1, n2, n3),
\* holds at [i][j][k] the element of the flat array a at C-order position
\* [k][j][i] of shape (n3, n2, n1).
reshapeSwap(a, n1, n2, n3) ==
    [i \in 0..(n1 - 1), j \in 0..(n2 - 1), k \in 0..(n3 - 1) |->
        a[(k * n2 + j) * n1 + i]]

\* A.swapaxes(1,3) reshaped to (rows, n1*n2*n3), for one row A of shape
\* (n1, n2, n3): column f of the result is element [k][j][i] in C order of
\* shape (n3, n2, n1), i.e. A[i][j][k] with f = (k*n2 + j)*n1 + i.
swapReshape(A, n1, n2, n3) ==
    [f \in 0..(n1 * n2 * n3 - 1) |->
        A[f % n1, (f \div n1) % n2, f \div (n1 * n2)]]

\* number of elements of a flat array
size(a) ==
    Cardinality(DOMAIN a)

\* numerix.concatenate((a, b, c)) of three flat arrays
concatenate(a, b, c) ==
    [f \in 0..(size(a) + size(b) + size(c) - 1) |->
        IF f < size(a) THEN a[f]
        ELSE IF f < size(a) + size(b) THEN b[f - size(a)]
        ELSE c[f - size(a) - size(b)]]

\* the index a negative Python index -1 denotes on an axis of length n
last(n) ==
    n - 1

\* (mutant of inner: the slice 1: instead of 1:-1)
inner_toEnd(n) ==
    1..(n - 1)

\* the indices the Python slice 1:-1 selects on an axis of length n
inner(n) ==
    1..(n - 2)

---------------------------------------------------------------------------
\* UniformGrid3D.__init__ with plain-number spacings

UniformGrid3D(dx, dy, dz, nx, ny, nz, origin) ==
    [dx |-> dx, dy |-> dy, dz |-> dz,
     nx |-> nx, ny |-> ny, nz |-> nz,
     origin |-> origin,
     numberOfVertices |-> (nx + 1) * (ny + 1) * (nz + 1),
     numberOfXYFaces |-> nx * ny * (nz + 1),
     numberOfXZFaces |-> nx * (ny + 1) * nz,
     numberOfYZFaces |-> (nx + 1) * ny * nz,
     numberOfFaces |-> nx * ny * (nz + 1) + nx * (ny + 1) * nz
                        + (nx + 1) * ny * nz,
     numberOfCells |-> nx * ny * nz]

\* the sets of IDs
FaceIDs(self) ==
    0..(self.numberOfFaces - 1)

CellIDs(self) ==
    0..(self.numberOfCells - 1)

---------------------------------------------------------------------------
\* Face ID grids, indexed [i, j, k]

_getXYFaceIDs(self) ==
    LET ids == arange(0, self.numberOfXYFaces)
    IN  reshapeSwap(ids, self.nx, self.ny, self.nz + 1)

_getXZFaceIDs(self) ==
    LET ids == arange(self.numberOfXYFaces,
                      self.numberOfXYFaces + self.numberOfXZFaces)
    IN  reshapeSwap(ids, self.nx, self.ny + 1, self.nz)

_getYZFaceIDs(self) ==
    LET ids == arange(self.numberOfXYFaces + self.numberOfXZFaces,
                      self.numberOfFaces)
    IN  reshapeSwap(ids, self.nx + 1, self.ny, self.nz)

\* the set of values of an ID grid restricted to the index sets I, J, K
ravelSet(grid, I, J, K) ==
    {grid[i, j, k] : i \in I, j \in J, k \in K}

getExteriorFaces(self) ==
    LET XYids == _getXYFaceIDs(self)
        XZids == _getXZFaceIDs(self)
        YZids == _getYZFaceIDs(self)
        I  == 0..(self.nx - 1)
        J  == 0..(self.ny - 1)
        K  == 0..(self.nz - 1)
        exteriorIDs ==
            ravelSet(XYids, I, J, {0})
            \cup ravelSet(XYids, I, J, {last(self.nz + 1)})
            \cup ravelSet(XZids, I, {0}, K)
            \cup ravelSet(XZids, I, {last(self.ny + 1)}, K)
            \cup ravelSet(YZids, {0}, J, K)
            \cup ravelSet(YZids, {last(self.nx + 1)}, J, K)
    IN  [f \in FaceIDs(self) |-> f \in exteriorIDs]

getInteriorFaces(self) ==
    LET XYids == _getXYFaceIDs(self)
        XZids == _getXZFaceIDs(self)
        YZids == _getYZFaceIDs(self)
        I  == 0..(self.nx - 1)
        J  == 0..(self.ny - 1)
        K  == 0..(self.nz - 1)
        interiorIDs ==
            ravelSet(XYids, I, J, inner(self.nz + 1))
            \cup ravelSet(XZids, I, inner(self.ny + 1), K)
            \cup ravelSet(YZids, inner(self.nx + 1), J, K)
    IN  [f \in FaceIDs(self) |-> f \in interiorIDs]

---------------------------------------------------------------------------
\* Face -> cell adjacency: a masked array of shape (2, numberOfFaces)

\* (mutant of negativeSide: layer 0 is not reassigned)
negativeSide_noLowFix(pos, m, stride) ==
    pos - stride

\* ids[0] = ids[1] - stride, then ids[0] of layer 0 = ids[1] of layer 0:
\* slot 0 of a face of layer m along its normal axis, pos being its slot 1
negativeSide(pos, m, stride) ==
    IF m = 0 THEN pos ELSE pos - stride

\* (mutant of maskedLayer: the last layer is not masked)
maskedLayer_lowOnly(m, n) ==
    m = 0

\* ids[1] of layer 0 and of layer -1 = MA.masked, on an axis of length n
maskedLayer(m, n) ==
    m = 0 \/ m = last(n)

getFaceCellIDs(self) ==
    LET nx == self.nx
        ny == self.ny
        nz == self.nz
        XYix == (0..(nx - 1)) \X (0..(ny - 1)) \X (0..nz)
        XY1 == [x \in XYix |-> x[1] + (x[2] + x[3] * ny) * nx]
        XY0 == [x \in XYix |-> negativeSide(XY1[x], x[3], nx * ny)]
        XYm == [x \in XYix |-> maskedLayer(x[3], nz + 1)]
        XZix == (0..(nx - 1)) \X (0..ny) \X (0..(nz - 1))
        XZ1 == [x \in XZix |-> x[1] + (x[2] + x[3] * ny) * nx]
        XZ0 == [x \in XZix |-> negativeSide(XZ1[x], x[2], nx)]
        XZm == [x \in XZix |-> maskedLayer(x[2], ny + 1)]
        YZix == (0..nx) \X (0..(ny - 1)) \X (0..(nz - 1))
        YZ1 == [x \in YZix |-> x[1] + (x[2] + x[3] * ny) * nx]
        YZ0 == [x \in YZix |-> negativeSide(YZ1[x], x[1], 1)]
        YZm == [x \in YZix |-> maskedLayer(x[1], nx + 1)]
        no(ix) == [x \in ix |-> FALSE]
        row(XY, XZ, YZ) ==
            concatenate(swapReshape(XY, nx, ny, nz + 1),
                        swapReshape(XZ, nx, ny + 1, nz),
                        swapReshape(YZ, nx + 1, ny, nz))
    IN  [data |-> [s \in 0..1 |-> IF s = 0 THEN row(XY0, XZ0, YZ0)
                                           ELSE row(XY1, XZ1, YZ1)],
         mask |-> [s \in 0..1 |-> IF s = 0 THEN row(no(XYix), no(XZix), no(YZix))
                                           ELSE row(XYm, XZm, YZm)]]

---------------------------------------------------------------------------
\* Face normals: an array of shape (3, numberOfFaces), rows x, y, z

\* (mutant of layerSign: layer 0 is not negated)
layerSign_allPositive(m) ==
    1

\* nor[axis, ...] = 1, then nor[axis] of layer 0 = -1: the component of the
\* normal of a face of layer m along its normal axis
layerSign(m) ==
    IF m = 0 THEN -1 ELSE 1

_getFaceNormals(self) ==
    LET nx == self.nx
        ny == self.ny
        nz == self.nz
        XYix == (0..(nx - 1)) \X (0..(ny - 1)) \X (0..nz)
        XZix == (0..(nx - 1)) \X (0..ny) \X (0..(nz - 1))
        YZix == (0..nx) \X (0..(ny - 1)) \X (0..(nz - 1))
        XYnor == [r \in 0..2 |-> [x \in XYix |->
                    IF r # 0 THEN 0 ELSE layerSign(x[3])]]
        XZnor == [r \in 0..2 |-> [x \in XZix |->
                    IF r # 1 THEN 0 ELSE layerSign(x[2])]]
        YZnor == [r \in 0..2 |-> [x \in YZix |->
                    IF r # 2 THEN 0 ELSE layerSign(x[1])]]
        rev(A) == [r \in 0..2 |-> A[2 - r]]
    IN  [r \in 0..2 |->
            concatenate(swapReshape(rev(XYnor)[r], nx, ny, nz + 1),
                        swapReshape(rev(XZnor)[r], nx, ny + 1, nz),
                        swapReshape(rev(YZnor)[r], nx + 1, ny, nz))]

---------------------------------------------------------------------------
\* Face tangents: arrays of shape (3, numberOfFaces), rows x, y, z; the tan
\* arrays are set on one row and reversed by [::-1]

_getFaceTangents1(self) ==
    LET nx == self.nx
        ny == self.ny
        nz == self.nz
        XYix == (0..(nx - 1)) \X (0..(ny - 1)) \X (0..nz)
        XZix == (0..(nx - 1)) \X (0..ny) \X (0..(nz - 1))
        YZix == (0..nx) \X (0..(ny - 1)) \X (0..(nz - 1))
        XYtan == [r \in 0..2 |-> [x \in XYix |-> IF r = 2 THEN 1 ELSE 0]]
        XZtan == [r \in 0..2 |-> [x \in XZix |-> IF r = 2 THEN 1 ELSE 0]]
        YZtan == [r \in 0..2 |-> [x \in YZix |-> IF r = 1 THEN 1 ELSE 0]]
        rev(A) == [r \in 0..2 |-> A[2 - r]]
    IN  [r \in 0..2 |->
            concatenate(swapReshape(rev(XYtan)[r], nx, ny, nz + 1),
                        swapReshape(rev(XZtan)[r], nx, ny + 1, nz),
                        swapReshape(rev(YZtan)[r], nx + 1, ny, nz))]

_getFaceTangents2(self) ==
    LET nx == self.nx
        ny == self.ny
        nz == self.nz
        XYix == (0..(nx - 1)) \X (0..(ny - 1)) \X (0..nz)
        XZix == (0..(nx - 1)) \X (0..ny) \X (0..(nz - 1))
        YZix == (0..nx) \X (0..(ny - 1)) \X (0..(nz - 1))
        XYtan == [r \in 0..2 |-> [x \in XYix |-> IF r = 1 THEN 1 ELSE 0]]
        XZtan == [r \in 0..2 |-> [x \in XZix |-> IF r = 0 THEN 1 ELSE 0]]
        YZtan == [r \in 0..2 |-> [x \in YZix |-> IF r = 0 THEN 1 ELSE 0]]
        rev(A) == [r \in 0..2 |-> A[2 - r]]
    IN  [r \in 0..2 |->
            concatenate(swapReshape(rev(XYtan)[r], nx, ny, nz + 1),
                        swapReshape(rev(XZtan)[r], nx, ny + 1, nz),
                        swapReshape(rev(YZtan)[r], nx + 1, ny, nz))]

---------------------------------------------------------------------------
\* Cell -> cell adjacency: a masked array of shape (6, numberOfCells)

_getCellToCellIDs(self) ==
    LET nx == self.nx
        ny == self.ny
        nz == self.nz
        ix == (0..(nx - 1)) \X (0..(ny - 1)) \X (0..(nz - 1))
        ids == [d \in 0..5 |-> [x \in ix |->
            CASE d = 0 -> x[1] + (x[2] + x[3] * ny) * nx - 1
              [] d = 1 -> x[1] + (x[2] + x[3] * ny) * nx + 1
              [] d = 2 -> x[1] + (x[2] + x[3] * ny - nz) * nx
              [] d = 3 -> x[1] + (x[2] + x[3] * ny + nz) * nx
              [] d = 4 -> x[1] + (x[2] + (x[3] - 1) * ny) * nx
              [] d = 5 -> x[1] + (x[2] + (x[3] + 1) * ny) * nx]]
        msk == [d \in 0..5 |-> [x \in ix |->
            CASE d = 0 -> x[1] = 0
              [] d = 1 -> x[1] = last(nx)
              [] d = 2 -> x[2] = 0
              [] d = 3 -> x[2] = last(ny)
              [] d = 4 -> x[3] = 0
              [] d = 5 -> x[3] = last(nz)]]
    IN  [data |-> [d \in 0..5 |-> swapReshape(ids[d], nx, ny, nz)],
         mask |-> [d \in 0..5 |-> swapReshape(msk[d], nx, ny, nz)]]

\* Grid3D._createCells, wrapped by _getCellFaceIDs: shape (6, numberOfCells),
\* rows low-X, high-X (YZ faces), low-Y, high-Y (XZ faces), low-Z, high-Z
\* (XY faces) of each cell
_createCells(self) ==
    LET nx == self.nx
        ny == self.ny
        nz == self.nz
        ix == (0..(nx - 1)) \X (0..(ny - 1)) \X (0..(nz - 1))
        XYids == _getXYFaceIDs(self)
        XZids == _getXZFaceIDs(self)
        YZids == _getYZFaceIDs(self)
        faces == [d \in 0..5 |-> [x \in ix |->
            CASE d = 0 -> YZids[x[1], x[2], x[3]]
              [] d = 1 -> YZids[x[1] + 1, x[2], x[3]]
              [] d = 2 -> XZids[x[1], x[2], x[3]]
              [] d = 3 -> XZids[x[1], x[2] + 1, x[3]]
              [] d = 4 -> XYids[x[1], x[2], x[3]]
              [] d = 5 -> XYids[x[1], x[2], x[3] + 1]]]
    IN  [d \in 0..5 |-> swapReshape(faces[d], nx, ny, nz)]

_getCellFaceIDs(self) ==
    _createCells(self)

\* (mutant of _getCellFaceOrientations: the comparison is not mapped to
\* -1, +1)
_getCellFaceOrientations_bool(self) ==
    LET slot0 == getFaceCellIDs(self).data[0]
        ids == _getCellFaceIDs(self)
        tmp == [d \in 0..5 |-> [c \in CellIDs(self) |-> slot0[ids[d][c]]]]
    IN  [d \in 0..5 |-> [c \in CellIDs(self) |->
            IF tmp[d][c] = c THEN 1 ELSE 0]]

\* (mutant of _getCellFaceOrientations: compares slot 1 of the face)
_getCellFaceOrientations_slot1(self) ==
    LET slot1 == getFaceCellIDs(self).data[1]
        ids == _getCellFaceIDs(self)
        tmp == [d \in 0..5 |-> [c \in CellIDs(self) |-> slot1[ids[d][c]]]]
    IN  [d \in 0..5 |-> [c \in CellIDs(self) |->
            (IF tmp[d][c] = c THEN 1 ELSE 0) * 2 - 1]]

\* shape (6, numberOfCells): +1 where slot 0 of the face is the cell itself
_getCellFaceOrientations(self) ==
    LET slot0 == getFaceCellIDs(self).data[0]
        ids == _getCellFaceIDs(self)
        tmp == [d \in 0..5 |-> [c \in CellIDs(self) |-> slot0[ids[d][c]]]]
    IN  [d \in 0..5 |-> [c \in CellIDs(self) |->
            (IF tmp[d][c] = c THEN 1 ELSE 0) * 2 - 1]]

\* shape (3, 6, numberOfCells): component, direction, cell
_getCellNormals(self) ==
    LET unit == <<  <<-1, 0, 0>>, <<1, 0, 0>>, <<0, -1, 0>>,
                    <<0, 1, 0>>, <<0, 0, -1>>, <<0, 0, 1>> >>
    IN  [r \in 0..2 |-> [d \in 0..5 |-> [c \in CellIDs(self) |->
            unit[d + 1][r + 1]]]]

\* shape (6, numberOfCells): mask * cellIDs + ~mask * cellToCellIDs.filled()
_getCellToCellIDsFilled(self) ==
    LET N == self.numberOfCells
        M == 6
        cellIDs == [d \in 0..(M - 1) |-> arange(0, N)]
        cellToCellIDs == _getCellToCellIDs(self)
        mask == cellToCellIDs.mask
    IN  [d \in 0..(M - 1) |-> [c \in CellIDs(self) |->
            IF mask[d][c] THEN cellIDs[d][c] ELSE cellToCellIDs.data[d][c]]]

---------------------------------------------------------------------------
\* Geometry

\* x / 2. for a length x (an even multiple of the quantum)
half(x) ==
    x \div 2

\* flat.reshape((rows, cols)) of a flat array in C order
reshape(flat, rows, cols) ==
    [r \in 0..(rows - 1) |-> [s \in 0..(cols - 1) |-> flat[r * cols + s]]]

\* the C-order flattening of an array of shape (rows, cols)
ravel(A, rows, cols) ==
    [t \in 0..(rows * cols - 1) |-> A[t \div cols][t % cols]]

_getCellToCellDistances(self) ==
    LET nx == self.nx
        ny == self.ny
        nz == self.nz
        ix == (0..(nx - 1)) \X (0..(ny - 1)) \X (0..(nz - 1))
        distances == [d \in 0..5 |-> [x \in ix |->
            CASE d = 0 -> IF x[1] = 0 THEN half(self.dx) ELSE self.dx
              [] d = 1 -> IF x[1] = last(nx) THEN half(self.dx) ELSE self.dx
              [] d = 2 -> IF x[2] = 0 THEN half(self.dy) ELSE self.dy
              [] d = 3 -> IF x[2] = last(ny) THEN half(self.dy) ELSE self.dy
              [] d = 4 -> IF x[3] = 0 THEN half(self.dz) ELSE self.dz
              [] d = 5 -> IF x[3] = last(nz) THEN half(self.dz) ELSE self.dz]]
        swapped == [d \in 0..5 |-> swapReshape(distances[d], nx, ny, nz)]
    IN  reshape(ravel(swapped, 6, self.numberOfCells), self.numberOfCells, 6)

\* shape (3, numberOfCells), rows x, y, z
getCellCenters(self) ==
    LET nx == self.nx
        ny == self.ny
        nz == self.nz
        ix == (0..(nx - 1)) \X (0..(ny - 1)) \X (0..(nz - 1))
        centers == [r \in 0..2 |-> [x \in ix |->
            CASE r = 0 -> (2 * x[1] + 1) * half(self.dx)
              [] r = 1 -> (2 * x[2] + 1) * half(self.dy)
              [] r = 2 -> (2 * x[3] + 1) * half(self.dz)]]
    IN  [r \in 0..2 |-> [c \in CellIDs(self) |->
            swapReshape(centers[r], nx, ny, nz)[c] + self.origin[r]]]

---------------------------------------------------------------------------
\* Vertices, the face -> vertex table and the face centers

VertexIDs(self) ==
    0..(self.numberOfVertices - 1)

\* Grid3D._createVertices: shape (3, numberOfVertices), rows x, y, z; the
\* vertex at lattice coordinate (a, b, c) has ID a + (nx+1)*(b + (ny+1)*c)
\* and coordinates (a*dx, b*dy, c*dz)
_createVertices(self) ==
    LET nx == self.nx
        ny == self.ny
        nz == self.nz
        ix == (0..nx) \X (0..ny) \X (0..nz)
        coords == [r \in 0..2 |-> [x \in ix |->
            CASE r = 0 -> x[1] * self.dx
              [] r = 1 -> x[2] * self.dy
              [] r = 2 -> x[3] * self.dz]]
    IN  [r \in 0..2 |-> swapReshape(coords[r], nx + 1, ny + 1, nz + 1)]

\* shape (3, numberOfVertices)
getVertexCoords(self) ==
    [r \in 0..2 |-> [v \in VertexIDs(self) |->
        _createVertices(self)[r][v] + self.origin[r]]]

\* Grid3D._createFaces, wrapped by _getFaceVertexIDs: shape
\* (4, numberOfFaces), the four corner vertices of each face in the order
\* of the table
_createFaces(self) ==
    LET nx == self.nx
        ny == self.ny
        nz == self.nz
        V(a, b, c) == a + (nx + 1) * (b + (ny + 1) * c)
        XYix == (0..(nx - 1)) \X (0..(ny - 1)) \X (0..nz)
        XZix == (0..(nx - 1)) \X (0..ny) \X (0..(nz - 1))
        YZix == (0..nx) \X (0..(ny - 1)) \X (0..(nz - 1))
        XY == [s \in 0..3 |-> [x \in XYix |->
            CASE s = 0 -> V(x[1], x[2], x[3])
              [] s = 1 -> V(x[1] + 1, x[2], x[3])
              [] s = 2 -> V(x[1] + 1, x[2] + 1, x[3])
              [] s = 3 -> V(x[1], x[2] + 1, x[3])]]
        XZ == [s \in 0..3 |-> [x \in XZix |->
            CASE s = 0 -> V(x[1], x[2], x[3])
              [] s = 1 -> V(x[1] + 1, x[2], x[3])
              [] s = 2 -> V(x[1] + 1, x[2], x[3] + 1)
              [] s = 3 -> V(x[1], x[2], x[3] + 1)]]
        YZ == [s \in 0..3 |-> [x \in YZix |->
            CASE s = 0 -> V(x[1], x[2], x[3])
              [] s = 1 -> V(x[1], x[2] + 1, x[3])
              [] s = 2 -> V(x[1], x[2] + 1, x[3] + 1)
              [] s = 3 -> V(x[1], x[2], x[3] + 1)]]
    IN  [s \in 0..3 |->
            concatenate(swapReshape(XY[s], nx, ny, nz + 1),
                        swapReshape(XZ[s], nx, ny + 1, nz),
                        swapReshape(YZ[s], nx + 1, ny, nz))]

_getFaceVertexIDs(self) ==
    _createFaces(self)

\* shape (3, numberOfFaces), rows x, y, z; self.origin is not added
getFaceCenters(self) ==
    LET nx == self.nx
        ny == self.ny
        nz == self.nz
        XYix == (0..(nx - 1)) \X (0..(ny - 1)) \X (0..nz)
        XZix == (0..(nx - 1)) \X (0..ny) \X (0..(nz - 1))
        YZix == (0..nx) \X (0..(ny - 1)) \X (0..(nz - 1))
        XYcen == [r \in 0..2 |-> [x \in XYix |->
            CASE r = 0 -> (2 * x[1] + 1) * half(self.dx)
              [] r = 1 -> (2 * x[2] + 1) * half(self.dy)
              [] r = 2 -> x[3] * self.dz]]
        XZcen == [r \in 0..2 |-> [x \in XZix |->
            CASE r = 0 -> (2 * x[1] + 1) * half(self.dx)
              [] r = 1 -> x[2] * self.dy
              [] r = 2 -> (2 * x[3] + 1) * half(self.dz)]]
        YZcen == [r \in 0..2 |-> [x \in YZix |->
            CASE r = 0 -> x[1] * self.dx
              [] r = 1 -> (2 * x[2] + 1) * half(self.dy)
              [] r = 2 -> (2 * x[3] + 1) * half(self.dz)]]
    IN  [r \in 0..2 |->
            concatenate(swapReshape(XYcen[r], nx, ny, nz + 1),
                        swapReshape(XZcen[r], nx, ny + 1, nz),
                        swapReshape(YZcen[r], nx + 1, ny, nz))]

---------------------------------------------------------------------------
\* Cell -> vertex incidence: an array of shape (8, numberOfCells)

\* (mutant of _getCellVertexIDs: the even slots are not the odd slots + 1)
_getCellVertexIDs_noPlusOne(self) ==
    LET nx == self.nx
        ny == self.ny
        nz == self.nz
        ix == (0..(nx - 1)) \X (0..(ny - 1)) \X (0..(nz - 1))
        id1 == [x \in ix |-> x[1] + (x[2] + (x[3] + 1) * (ny + 1) + 1) * (nx + 1)]
        id3 == [x \in ix |-> x[1] + (x[2] + (x[3] + 1) * (ny + 1)) * (nx + 1)]
        id5 == [x \in ix |-> x[1] + (x[2] + x[3] * (ny + 1) + 1) * (nx + 1)]
        id7 == [x \in ix |-> x[1] + (x[2] + x[3] * (ny + 1)) * (nx + 1)]
        ids == [s \in 0..7 |-> [x \in ix |->
            CASE s \in {0, 1} -> id1[x]
              [] s \in {2, 3} -> id3[x]
              [] s \in {4, 5} -> id5[x]
              [] s \in {6, 7} -> id7[x]]]
    IN  [s \in 0..7 |-> swapReshape(ids[s], nx, ny, nz)]

_getCellVertexIDs(self) ==
    LET nx == self.nx
        ny == self.ny
        nz == self.nz
        ix == (0..(nx - 1)) \X (0..(ny - 1)) \X (0..(nz - 1))
        id1 == [x \in ix |-> x[1] + (x[2] + (x[3] + 1) * (ny + 1) + 1) * (nx + 1)]
        id3 == [x \in ix |-> x[1] + (x[2] + (x[3] + 1) * (ny + 1)) * (nx + 1)]
        id5 == [x \in ix |-> x[1] + (x[2] + x[3] * (ny + 1) + 1) * (nx + 1)]
        id7 == [x \in ix |-> x[1] + (x[2] + x[3] * (ny + 1)) * (nx + 1)]
        ids == [s \in 0..7 |-> [x \in ix |->
            CASE s = 1 -> id1[x]
              [] s = 0 -> id1[x] + 1
              [] s = 3 -> id3[x]
              [] s = 2 -> id3[x] + 1
              [] s = 5 -> id5[x]
              [] s = 4 -> id5[x] + 1
              [] s = 7 -> id7[x]
              [] s = 6 -> id7[x] + 1]]
    IN  [s \in 0..7 |-> swapReshape(ids[s], nx, ny, nz)]

---------------------------------------------------------------------------
\* Face areas, cell volumes and the face's cell-to-cell distance

\* numerix.repeat((v,), n)
repeat(v, n) ==
    [t \in 0..(n - 1) |-> v]

\* numerix.ravel(A): the C-order flattening of an array of shape (n1, n2, n3)
ravel3(A, n1, n2, n3) ==
    [t \in 0..(n1 * n2 * n3 - 1) |-> A[t \div (n2 * n3), (t \div n3) % n2, t % n3]]

_getFaceAreas(self) ==
    concatenate(repeat(self.dx * self.dy, self.numberOfXYFaces),
                repeat(self.dx * self.dz, self.numberOfXZFaces),
                repeat(self.dy * self.dz, self.numberOfYZFaces))

\* the scalar dx * dy * dz as a variable over the cells
getCellVolumes(self) ==
    [c \in CellIDs(self) |-> self.dx * self.dy * self.dz]

\* (mutant of halvedLayer: the last layer is not halved)
halvedLayer_lowOnly(m, n) ==
    m = 0

\* dis[0] = d / 2. and dis[-1] = d / 2. on an axis of length n: whether
\* layer m holds the halved value
halvedLayer(m, n) ==
    m = 0 \/ m = last(n)

\* a FaceVariable: a flat array over the face IDs; the three arrays are
\* allocated with shape (nz', ny', nx') and indexed [k][j][i]
_getCellDistances(self) ==
    LET nx == self.nx
        ny == self.ny
        nz == self.nz
        XYdis == [k \in 0..nz, j \in 0..(ny - 1), i \in 0..(nx - 1) |->
                    IF halvedLayer(k, nz + 1) THEN half(self.dz) ELSE self.dz]
        XZdis == [k \in 0..(nz - 1), j \in 0..ny, i \in 0..(nx - 1) |->
                    IF halvedLayer(j, ny + 1) THEN half(self.dy) ELSE self.dy]
        YZdis == [k \in 0..(nz - 1), j \in 0..(ny - 1), i \in 0..nx |->
                    IF halvedLayer(i, nx + 1) THEN half(self.dx) ELSE self.dx]
    IN  concatenate(ravel3(XYdis, nz + 1, ny, nx),
                    ravel3(XZdis, nz, ny + 1, nx),
                    ravel3(YZdis, nz, ny, nx + 1))

\* (mutant of _getCellAreas: the +X area is dx * dz)
_getCellAreas_wrongHighX(self) ==
    [d \in 0..5 |-> [c \in CellIDs(self) |->
        CASE d = 0 -> self.dy * self.dz
          [] d = 1 -> self.dx * self.dz
          [] d = 2 -> self.dx * self.dz
          [] d = 3 -> self.dx * self.dz
          [] d = 4 -> self.dx * self.dy
          [] d = 5 -> self.dx * self.dy]]

\* shape (6, numberOfCells)
_getCellAreas(self) ==
    [d \in 0..5 |-> [c \in CellIDs(self) |->
        CASE d = 0 -> self.dy * self.dz
          [] d = 1 -> self.dy * self.dz
          [] d = 2 -> self.dx * self.dz
          [] d = 3 -> self.dx * self.dz
          [] d = 4 -> self.dx * self.dy
          [] d = 5 -> self.dx * self.dy]]

\* shape (3, 6, numberOfCells): the areas broadcast over the components
_getCellAreaProjections(self) ==
    LET areas == _getCellAreas(self)
        normals == _getCellNormals(self)
    IN  [r \in 0..2 |-> [d \in 0..5 |-> [c \in CellIDs(self) |->
            areas[d][c] * normals[r][d][c]]]]

\* (mutant of ravelSwap: the array is flattened without the swap)
ravelSwap_noSwap(A, n1, n2, n3) ==
    [t \in 0..(n1 * n2 * n3 - 1) |-> A[t \div (n2 * n3), (t \div n3) % n2, t % n3]]

\* numerix.ravel(A.swapaxes(0,2)) of an array A of shape (n1, n2, n3): the
\* first index runs fastest
ravelSwap(A, n1, n2, n3) ==
    [t \in 0..(n1 * n2 * n3 - 1) |-> A[t % n1, (t \div n1) % n2, t \div (n1 * n2)]]

\* dis[:] = 0.5, dis[0] = 1 and dis[-1] = 1 on an axis of length n: the
\* value of layer m.  A ratio is held as its multiple of 0.5.
ratioOfLayer(m, n) ==
    IF m = 0 \/ m = last(n) THEN 2 ELSE 1

\* a FaceVariable: a flat array over the face IDs, in halves; the three
\* arrays are allocated with shape (nx', ny', nz') and indexed [i, j, k].
\* numerix.concatenate is called with axis=1 on three 1-D arrays: the numpy
\* this code runs on ignores the axis of a 1-D concatenation
_getFaceToCellDistanceRatio(self) ==
    LET nx == self.nx
        ny == self.ny
        nz == self.nz
        XYdis == [i \in 0..(nx - 1), j \in 0..(ny - 1), k \in 0..nz |->
                    ratioOfLayer(k, nz + 1)]
        XZdis == [i \in 0..(nx - 1), j \in 0..ny, k \in 0..(nz - 1) |->
                    ratioOfLayer(j, ny + 1)]
        YZdis == [i \in 0..nx, j \in 0..(ny - 1), k \in 0..(nz - 1) |->
                    ratioOfLayer(i, nx + 1)]
    IN  concatenate(ravelSwap(XYdis, nx, ny, nz + 1),
                    ravelSwap(XZdis, nx, ny + 1, nz),
                    ravelSwap(YZdis, nx + 1, ny, nz))

---------------------------------------------------------------------------
\* Derived meshes: each is a new UniformGrid3D

\* (mutant of _translate: the vector replaces the origin)
_translate_toVector(self, vector) ==
    UniformGrid3D(self.dx, self.dy, self.dz, self.nx, self.ny, self.nz,
                  vector)

_translate(self, vector) ==
    UniformGrid3D(self.dx, self.dy, self.dz, self.nx, self.ny, self.nz,
                  [r \in 0..2 |-> self.origin[r] + vector[r]])

\* (mutant of __mul__: dz is not multiplied)
__mul___keepsDz(self, factor) ==
    UniformGrid3D(self.dx * factor, self.dy * factor, self.dz,
                  self.nx, self.ny, self.nz,
                  [r \in 0..2 |-> self.origin[r] * factor])

__mul__(self, factor) ==
    UniformGrid3D(self.dx * factor, self.dy * factor, self.dz * factor,
                  self.nx, self.ny, self.nz,
                  [r \in 0..2 |-> self.origin[r] * factor])

---------------------------------------------------------------------------
\* Nearest-cell locator

\* Grid3D.getShape
getShape(self) ==
    <<self.nx, self.ny, self.nz>>

\* numerix.rint(num / den) for den > 0: the nearest integer, ties to even
rint(num, den) ==
    LET q == num \div den
        r == num - q * den
    IN  IF 2 * r < den THEN q
        ELSE IF 2 * r > den THEN q + 1
        ELSE IF q % 2 = 0 THEN q ELSE q + 1

\* (mutant of clamp: i[i > n] = n - 1)
clamp_aboveOnlyPast(i, n) ==
    LET lo == IF i < 0 THEN 0 ELSE i
    IN  IF lo > n THEN n - 1 ELSE lo

\* i[i < 0] = 0; i[i > n - 1] = n - 1
clamp(i, n) ==
    LET lo == IF i < 0 THEN 0 ELSE i
    IN  IF lo > n - 1 THEN n - 1 ELSE lo

\* (mutant of _getNearestCellID: offsets taken from the origin, not from the
\* center of cell 0)
_getNearestCellID_fromOrigin(self, points) ==
    LET x0 == self.origin[0]
        y0 == self.origin[1]
        z0 == self.origin[2]
        xi == points[0]
        yi == points[1]
        zi == points[2]
        nx == getShape(self)[1]
        ny == getShape(self)[2]
        nz == getShape(self)[3]
        i == clamp(rint(xi - x0, self.dx), nx)
        j == clamp(rint(yi - y0, self.dy), ny)
        k == clamp(rint(zi - z0, self.dz), nz)
    IN  k * ny * nx + j * nx + i

\* points: one point, a vector of 3 coordinates indexed 0..2
_getNearestCellID(self, points) ==
    LET centers == getCellCenters(self)
        x0 == centers[0][0]
        y0 == centers[1][0]
        z0 == centers[2][0]
        xi == points[0]
        yi == points[1]
        zi == points[2]
        nx == getShape(self)[1]
        ny == getShape(self)[2]
        nz == getShape(self)[3]
        i == clamp(rint(xi - x0, self.dx), nx)
        j == clamp(rint(yi - y0, self.dy), ny)
        k == clamp(rint(zi - z0, self.dz), nz)
    IN  k * ny * nx + j * nx + i

---------------------------------------------------------------------------
\* The state machine: a mesh is constructed, then queried

\* a vector of 3 components indexed 0..2
vec(x, y, z) ==
    [r \in 0..2 |-> <<x, y, z>>[r + 1]]

\* the spacings (dx, dy, dz) of the meshes queried: three different even
\* multiples of the quantum
SpacingTriples ==
    {<<2 * d, 2 * d + 2, 2 * d + 4>> : d \in 1..MaxD}

\* the spacings of the meshes the locator is called on: every combination
\* of the even multiples up to 2*MaxD
SpacingCube ==
    {<<2 * a, 2 * b, 2 * c>> : a \in 1..MaxD, b \in 1..MaxD, c \in 1..MaxD}

Origins ==
    {vec(0, 0, 0)} \cup {vec(o, 0 - o, 2 * o) : o \in 1..MaxO}

Points ==
    {vec(x, y, z) : x \in (0 - MaxP)..MaxP, y \in (0 - MaxP)..MaxP,
                    z \in (0 - MaxP)..MaxP}

\* the vectors meshes are translated by: zero and vectors of three
\* different non-zero components, of both signs
Vectors ==
    {vec(t, 0 - 2 * t, 3 * t) : t \in (0 - MaxT)..MaxT}

\* the factors meshes are multiplied by
Factors ==
    1..MaxS

Construct(N, spacings) ==
    \E nx \in 1..N, ny \in 1..N, nz \in 1..N :
    \E d \in spacings :
    \E origin \in Origins :
        /\ mesh = UniformGrid3D(d[1], d[2], d[3], nx, ny, nz, origin)
        /\ op = "__init__"
        /\ arg = <<>>
        /\ ret = <<>>

Init ==
    Construct(MaxN, SpacingTriples)

InitLocate ==
    Construct(MaxLocN, SpacingCube)

\* a call of a method without arguments that returns value
Call(name, value) ==
    /\ op' = name
    /\ arg' = <<>>
    /\ ret' = value
    /\ UNCHANGED mesh

call_getXYFaceIDs ==
    Call("_getXYFaceIDs", _getXYFaceIDs(mesh))

call_getXZFaceIDs ==
    Call("_getXZFaceIDs", _getXZFaceIDs(mesh))

call_getYZFaceIDs ==
    Call("_getYZFaceIDs", _getYZFaceIDs(mesh))

call_getExteriorFaces ==
    Call("getExteriorFaces", getExteriorFaces(mesh))

call_getInteriorFaces ==
    Call("getInteriorFaces", getInteriorFaces(mesh))

call_getFaceCellIDs ==
    Call("getFaceCellIDs", getFaceCellIDs(mesh))

call_getFaceNormals ==
    Call("_getFaceNormals", _getFaceNormals(mesh))

call_getCellToCellIDs ==
    Call("_getCellToCellIDs", _getCellToCellIDs(mesh))

call_getCellFaceIDs ==
    Call("_getCellFaceIDs", _getCellFaceIDs(mesh))

call_getCellFaceOrientations ==
    Call("_getCellFaceOrientations", _getCellFaceOrientations(mesh))

call_getCellNormals ==
    Call("_getCellNormals", _getCellNormals(mesh))

call_getCellToCellDistances ==
    Call("_getCellToCellDistances", _getCellToCellDistances(mesh))

call_getCellCenters ==
    Call("getCellCenters", getCellCenters(mesh))

call_getVertexCoords ==
    Call("getVertexCoords", getVertexCoords(mesh))

call_getFaceVertexIDs ==
    Call("_getFaceVertexIDs", _getFaceVertexIDs(mesh))

call_getFaceCenters ==
    Call("getFaceCenters", getFaceCenters(mesh))

call_getCellVertexIDs ==
    Call("_getCellVertexIDs", _getCellVertexIDs(mesh))

call_getFaceAreas ==
    Call("_getFaceAreas", _getFaceAreas(mesh))

call_getCellVolumes ==
    Call("getCellVolumes", getCellVolumes(mesh))

call_getCellDistances ==
    Call("_getCellDistances", _getCellDistances(mesh))

\* mesh._translate(vector), on the mesh as constructed: returns a new mesh
\* and leaves the mesh alone
call_translate ==
    /\ op = "__init__"
    /\ \E vector \in Vectors :
          /\ op' = "_translate"
          /\ arg' = vector
          /\ ret' = _translate(mesh, vector)
          /\ UNCHANGED mesh

\* mesh * factor, on the mesh as constructed: returns a new mesh and leaves
\* the mesh alone
call_mul ==
    /\ op = "__init__"
    /\ \E factor \in Factors :
          /\ op' = "__mul__"
          /\ arg' = factor
          /\ ret' = __mul__(mesh, factor)
          /\ UNCHANGED mesh

call_getCellAreaProjections ==
    Call("_getCellAreaProjections", _getCellAreaProjections(mesh))

call_getCellToCellIDsFilled ==
    Call("_getCellToCellIDsFilled", _getCellToCellIDsFilled(mesh))

call_getFaceTangents1 ==
    Call("_getFaceTangents1", _getFaceTangents1(mesh))

call_getFaceTangents2 ==
    Call("_getFaceTangents2", _getFaceTangents2(mesh))

call_getFaceToCellDistanceRatio ==
    Call("_getFaceToCellDistanceRatio", _getFaceToCellDistanceRatio(mesh))

\* a call of _getNearestCellID on one point
Locate(points) ==
    /\ op' = "_getNearestCellID"
    /\ arg' = points
    /\ ret' = _getNearestCellID(mesh, points)
    /\ UNCHANGED mesh

\* the locator called on a column of the table getCellCenters has just
\* returned
call_getNearestCellID_ofCenter ==
    /\ op = "getCellCenters"
    /\ \E c \in CellIDs(mesh) : Locate([r \in 0..2 |-> ret[r][c]])

\* the locator called on a point of the lattice Points, right after the
\* construction (the call is pure: made later, it reaches the same states)
call_getNearestCellID ==
    /\ op = "__init__"
    /\ \E points \in Points : Locate(points)

Next ==
    \/ call_getXYFaceIDs
    \/ call_getXZFaceIDs
    \/ call_getYZFaceIDs
    \/ call_getExteriorFaces
    \/ call_getInteriorFaces
    \/ call_getFaceCellIDs
    \/ call_getFaceNormals
    \/ call_getCellToCellIDs
    \/ call_getCellFaceIDs
    \/ call_getCellFaceOrientations
    \/ call_getCellNormals
    \/ call_getCellToCellDistances
    \/ call_getCellCenters
    \/ call_getNearestCellID_ofCenter
    \/ call_getVertexCoords
    \/ call_getFaceVertexIDs
    \/ call_getFaceCenters
    \/ call_getCellVertexIDs
    \/ call_getFaceAreas
    \/ call_getCellVolumes
    \/ call_getCellDistances
    \/ call_translate
    \/ call_mul
    \/ call_getCellAreaProjections
    \/ call_getCellToCellIDsFilled
    \/ call_getFaceTangents1
    \/ call_getFaceTangents2
    \/ call_getFaceToCellDistanceRatio

Spec ==
    Init /\ [][Next]_vars

NextLocate ==
    call_getNearestCellID

SpecLocate ==
    InitLocate /\ [][NextLocate]_vars

---------------------------------------------------------------------------
\* The constructor called with arguments of any sign

AnySpacings ==
    {2 * d : d \in (0 - MaxArg)..MaxArg}

AnyCounts ==
    (0 - MaxArg)..MaxArg

\* whether __init__ raises on the given arguments: it has no raise statement
\* and no test of the sign of an argument; the counts are products of the
\* arguments and no array is allocated
__init__raises(dx, dy, dz, nx, ny, nz) ==
    FALSE

\* before the constructor is called there is no mesh
InitConstruct ==
    /\ mesh = <<>>
    /\ op = "new"
    /\ arg = <<>>
    /\ ret = <<>>

\* UniformGrid3D(dx, dy, dz, nx, ny, nz): ret tells whether the caller got a
\* mesh or an error
new_UniformGrid3D ==
    /\ op = "new"
    /\ \E dx \in AnySpacings, dy \in AnySpacings, dz \in AnySpacings :
       \E nx \in AnyCounts, ny \in AnyCounts, nz \in AnyCounts :
          /\ op' = "__init__"
          /\ arg' = [dx |-> dx, dy |-> dy, dz |-> dz,
                     nx |-> nx, ny |-> ny, nz |-> nz]
          /\ IF __init__raises(dx, dy, dz, nx, ny, nz)
                THEN /\ ret' = "error"
                     /\ UNCHANGED mesh
                ELSE /\ ret' = "mesh"
                     /\ mesh' = UniformGrid3D(dx, dy, dz, nx, ny, nz,
                                              vec(0, 0, 0))

NextConstruct ==
    new_UniformGrid3D

SpecConstruct ==
    InitConstruct /\ [][NextConstruct]_vars

---------------------------------------------------------------------------
\* _AddOverFacesVariable: the sum of a face variable over the faces of each
\* cell, divided by the cell volume

\* numerix.take(a, ids): the elements of the flat array a at the indices ids
take(a, ids) ==
    [t \in DOMAIN ids |-> a[ids[t]]]

\* the sum of the first n elements of a flat array
RECURSIVE sumTo(_, _)
sumTo(row, n) ==
    IF n = 0 THEN 0 ELSE row[n - 1] + sumTo(row, n - 1)

\* a / b, kept exact as a numerator over a denominator
quotient(a, b) ==
    [num |-> a, den |-> b]

\* the tables of the mesh have shape (6, numberOfCells); the reshape to
\* (NCells, -1) cuts their C-order flattening into rows of 6
_calcValuePy(self, faceVariable) ==
    LET ids == _getCellFaceIDs(self)
        NCells == self.numberOfCells
        taken == take(faceVariable, ravel(ids, 6, NCells))
        contributions == reshape(taken, NCells, 6)
        orientations == reshape(ravel(_getCellFaceOrientations(self), 6, NCells),
                                NCells, 6)
        volumes == getCellVolumes(self)
    IN  [i \in CellIDs(self) |->
            quotient(sumTo([j \in 0..5 |->
                               contributions[i][j] * orientations[i][j]], 6),
                     volumes[i])]

\* the cells whose row i of the inline loop lies outside the arrays of shape
\* (6, numberOfCells): orientations(i,j) and ids(i,j) are unchecked reads at
\* the offset i * numberOfCells + j
outside(self) ==
    {i \in CellIDs(self) : i * self.numberOfCells >= 6 * self.numberOfCells}

\* the inline loop; junk[i] is what the reads of a row outside the arrays
\* add up to
_calcValueIn(self, faceVariable, junk) ==
    LET NCells == self.numberOfCells
        numberOfCellFaces == 6
        ids == ravel(_getCellFaceIDs(self), 6, NCells)
        orientations == ravel(_getCellFaceOrientations(self), 6, NCells)
        cellVolume == getCellVolumes(self)
    IN  [i \in CellIDs(self) |->
            quotient(IF i \in outside(self)
                     THEN junk[i]
                     ELSE sumTo([j \in 0..(numberOfCellFaces - 1) |->
                                    orientations[i * NCells + j]
                                      * faceVariable[ids[i * NCells + j]]],
                                numberOfCellFaces),
                     cellVolume[i])]

\* the shapes of the meshes summed over
AddShapes ==
    {s \in (1..MaxAddN) \X (1..MaxAddN) \X (1..MaxAddN) :
        s[1] * s[2] * s[3] <= 6 + MaxOut}

\* the face variables summed: 1 on one face and 0 elsewhere (the sum is
\* linear in the face variable), and a ramp over the face IDs
FaceVariables(self) ==
    {[f \in FaceIDs(self) |-> IF f = g THEN 1 ELSE 0] : g \in FaceIDs(self)}
      \cup {[f \in FaceIDs(self) |-> f + 1]}

Junk ==
    (0 - MaxJunk)..MaxJunk

InitAdd ==
    \E s \in AddShapes :
    \E d \in SpacingTriples :
        /\ mesh = UniformGrid3D(d[1], d[2], d[3], s[1], s[2], s[3],
                                vec(0, 0, 0))
        /\ op = "__init__"
        /\ arg = <<>>
        /\ ret = <<>>

\* _AddOverFacesVariable(faceVariable): arg holds self.faceVariable
new_AddOverFacesVariable ==
    /\ op = "__init__"
    /\ \E faceVariable \in FaceVariables(mesh) :
          /\ op' = "_AddOverFacesVariable"
          /\ arg' = faceVariable
          /\ ret' = <<>>
          /\ UNCHANGED mesh

call_calcValuePy ==
    /\ op = "_AddOverFacesVariable"
    /\ op' = "_calcValuePy"
    /\ ret' = _calcValuePy(mesh, arg)
    /\ UNCHANGED <<mesh, arg>>

\* the reads outside the arrays yield any values, or the process faults
call_calcValueIn ==
    /\ op = "_AddOverFacesVariable"
    /\ \/ \E junk \in [outside(mesh) -> Junk] :
             /\ op' = "_calcValueIn"
             /\ ret' = _calcValueIn(mesh, arg, junk)
       \/ /\ outside(mesh) # {}
          /\ op' = "_calcValueIn fault"
          /\ ret' = <<>>
    /\ UNCHANGED <<mesh, arg>>

NextAdd ==
    \/ new_AddOverFacesVariable
    \/ call_calcValuePy
    \/ call_calcValueIn

SpecAdd ==
    InitAdd /\ [][NextAdd]_vars

---------------------------------------------------------------------------
\* The constructor called with spacings that may carry a physical unit.  A
\* quantity is a value with the power of the length unit it carries: 0 for a
\* plain number

\* PhysicalField(value = x): a plain number becomes a dimensionless quantity,
\* a quantity keeps its unit
PhysicalField(x) ==
    [value |-> x.value, unit |-> x.unit]

\* getUnit().isDimensionless()
isDimensionless(q) ==
    q.unit = 0

\* q /= scale for a scale of value 1
divide(q, scale) ==
    [value |-> q.value \div scale.value, unit |-> q.unit - scale.unit]

\* the spacings __init__ stores for the arguments dx, dy, dz
__init__(dx, dy, dz) ==
    LET dx0 == PhysicalField(dx)
        scale == [value |-> 1, unit |-> dx0.unit]
        dy0 == PhysicalField(dy)
        dz0 == PhysicalField(dy)
    IN  [dx |-> divide(dx0, scale),
         dy |-> IF isDimensionless(dy0) THEN dy ELSE divide(dy0, scale),
         dz |-> IF isDimensionless(dz0) THEN dz ELSE divide(dz0, scale)]

\* the spacings passed: even multiples of the quantum, plain or in the
\* length unit
Quantities ==
    {[value |-> 2 * d, unit |-> u] : d \in 1..(MaxD + 1), u \in {0, 1}}

InitUnits ==
    /\ mesh = <<>>
    /\ op = "new"
    /\ arg = <<>>
    /\ ret = <<>>

\* UniformGrid3D(dx, dy, dz): mesh holds the spacings stored
new_UniformGrid3D_withUnits ==
    /\ op = "new"
    /\ \E dx \in Quantities, dy \in Quantities, dz \in Quantities :
          /\ op' = "__init__"
          /\ arg' = [dx |-> dx, dy |-> dy, dz |-> dz]
          /\ mesh' = __init__(dx, dy, dz)
          /\ ret' = <<>>

NextUnits ==
    new_UniformGrid3D_withUnits

SpecUnits ==
    InitUnits /\ [][NextUnits]_vars

---------------------------------------------------------------------------
\* Properties

\* the indexing scheme's encoding of a lattice coordinate in a grid whose
\* first two extents are n1 and n2
encode(i, j, k, n1, n2) ==
    i + n1 * (j + n2 * k)

\* the linear ID of the cell at lattice coordinate (i, j, k)
CellAt(self, i, j, k) ==
    encode(i, j, k, self.nx, self.ny)

\* the index sets of the three face bands and of the cells
XYBand(self) ==
    (0..(self.nx - 1)) \X (0..(self.ny - 1)) \X (0..self.nz)

XZBand(self) ==
    (0..(self.nx - 1)) \X (0..self.ny) \X (0..(self.nz - 1))

YZBand(self) ==
    (0..self.nx) \X (0..(self.ny - 1)) \X (0..(self.nz - 1))

CellBand(self) ==
    (0..(self.nx - 1)) \X (0..(self.ny - 1)) \X (0..(self.nz - 1))

\* C1: the faces getExteriorFaces marks and the faces getInteriorFaces marks
\* partition the face IDs 0..numberOfFaces-1: every face is marked by
\* exactly one of the two.
C1_ExteriorInteriorPartition ==
    /\ op = "getExteriorFaces" =>
          /\ DOMAIN ret = FaceIDs(mesh)
          /\ \A f \in FaceIDs(mesh) :
                ret[f] <=> ~getInteriorFaces(mesh)[f]
    /\ op = "getInteriorFaces" =>
          /\ DOMAIN ret = FaceIDs(mesh)
          /\ \A f \in FaceIDs(mesh) :
                ret[f] <=> ~getExteriorFaces(mesh)[f]

\* a mesh with interior faces in all three bands has been classified
C1_Witness ==
    /\ op = "getInteriorFaces"
    /\ mesh.nx >= 2 /\ mesh.ny >= 2 /\ mesh.nz >= 2
    /\ \E x \in XYBand(mesh) : ret[_getXYFaceIDs(mesh)[x]]
    /\ \E x \in XZBand(mesh) : ret[_getXZFaceIDs(mesh)[x]]
    /\ \E x \in YZBand(mesh) : ret[_getYZFaceIDs(mesh)[x]]
    /\ \E f \in FaceIDs(mesh) : ~ret[f]

\* C2: the classification agrees with the adjacency table: a face is marked
\* exterior iff exactly one of its two slots in getFaceCellIDs is masked, and
\* marked interior iff both slots are present and hold two distinct cell IDs.
C2_ClassificationMatchesAdjacency ==
    LET fc == IF op = "getFaceCellIDs" THEN ret ELSE getFaceCellIDs(mesh)
        ext == IF op = "getExteriorFaces" THEN ret ELSE getExteriorFaces(mesh)
        int == IF op = "getInteriorFaces" THEN ret ELSE getInteriorFaces(mesh)
    IN  op \in {"getFaceCellIDs", "getExteriorFaces", "getInteriorFaces"} =>
          \A f \in FaceIDs(mesh) :
            /\ ext[f] <=> (fc.mask[0][f] # fc.mask[1][f])
            /\ int[f] <=> /\ ~fc.mask[0][f]
                           /\ ~fc.mask[1][f]
                           /\ fc.data[0][f] # fc.data[1][f]

\* the adjacency table of a mesh with faces of both kinds has been returned
C2_Witness ==
    /\ op = "getFaceCellIDs"
    /\ mesh.nx >= 2 /\ mesh.ny >= 2 /\ mesh.nz >= 2
    /\ \E f \in FaceIDs(mesh) : ret.mask[1][f] /\ getExteriorFaces(mesh)[f]
    /\ \E f \in FaceIDs(mesh) : ~ret.mask[1][f] /\ getInteriorFaces(mesh)[f]

\* what C3 says of the face of ID f at in-band coordinate (i, j, k), of index
\* m in 0..count along its normal axis, stride being the cell-ID stride along
\* that axis and low the coordinate of the cell one step lower
C3_Face(fc, self, f, i, j, k, m, count, stride, low) ==
    /\ fc.mask[1][f] <=> (m = 0 \/ m = count)
    /\ (0 < m /\ m < count) => fc.data[1][f] = CellAt(self, i, j, k)
    /\ ~fc.mask[0][f]
    /\ m > 0 => /\ fc.data[0][f] = CellAt(self, i, j, k) - stride
                /\ fc.data[0][f] = CellAt(self, low[1], low[2], low[3])
                /\ low \in CellBand(self)
    /\ m = 0 => /\ fc.data[0][f] = CellAt(self, i, j, k)
                /\ <<i, j, k>> \in CellBand(self)

\* C3: slot 1 of getFaceCellIDs holds the cell at the face's own coordinate,
\* masked on the first and last layer along the normal axis; slot 0 is never
\* masked and holds the cell one step lower along the normal axis (slot 1's
\* formula minus the stride nx*ny, nx, 1), or the cell at the face's own
\* coordinate on layer 0.  The column of a face is at its linear face ID.
C3_FaceCellIDs ==
    op = "getFaceCellIDs" =>
      /\ DOMAIN ret.data[0] = FaceIDs(mesh)
      /\ DOMAIN ret.data[1] = FaceIDs(mesh)
      /\ \A x \in XYBand(mesh) :
            C3_Face(ret, mesh, _getXYFaceIDs(mesh)[x], x[1], x[2], x[3],
                    x[3], mesh.nz, mesh.nx * mesh.ny, <<x[1], x[2], x[3] - 1>>)
      /\ \A x \in XZBand(mesh) :
            C3_Face(ret, mesh, _getXZFaceIDs(mesh)[x], x[1], x[2], x[3],
                    x[2], mesh.ny, mesh.nx, <<x[1], x[2] - 1, x[3]>>)
      /\ \A x \in YZBand(mesh) :
            C3_Face(ret, mesh, _getYZFaceIDs(mesh)[x], x[1], x[2], x[3],
                    x[1], mesh.nx, 1, <<x[1] - 1, x[2], x[3]>>)

\* the table of a mesh with first-layer, inner and last-layer faces along
\* every axis has been returned
C3_Witness ==
    /\ op = "getFaceCellIDs"
    /\ mesh.nx >= 2 /\ mesh.ny >= 2 /\ mesh.nz >= 2
    /\ \E x \in XZBand(mesh) :
          /\ 0 < x[2] /\ x[2] < mesh.ny
          /\ ~ret.mask[1][_getXZFaceIDs(mesh)[x]]
          /\ ret.data[0][_getXZFaceIDs(mesh)[x]]
                = ret.data[1][_getXZFaceIDs(mesh)[x]] - mesh.nx
    /\ \E x \in YZBand(mesh) :
          x[1] = mesh.nx /\ ret.mask[1][_getYZFaceIDs(mesh)[x]]

\* the lattice neighbour of coordinate x in direction d (-X, +X, -Y, +Y, -Z, +Z)
Neighbour(x, d) ==
    CASE d = 0 -> <<x[1] - 1, x[2], x[3]>>
      [] d = 1 -> <<x[1] + 1, x[2], x[3]>>
      [] d = 2 -> <<x[1], x[2] - 1, x[3]>>
      [] d = 3 -> <<x[1], x[2] + 1, x[3]>>
      [] d = 4 -> <<x[1], x[2], x[3] - 1>>
      [] d = 5 -> <<x[1], x[2], x[3] + 1>>

\* the signed cell-ID stride of direction d
SignedStride(self, d) ==
    CASE d = 0 -> 0 - 1
      [] d = 1 -> 1
      [] d = 2 -> 0 - self.nx
      [] d = 3 -> self.nx
      [] d = 4 -> 0 - self.nx * self.ny
      [] d = 5 -> self.nx * self.ny

\* C4: slot d of _getCellToCellIDs for the cell at (i, j, k) holds the ID of
\* the lattice-adjacent cell in direction d, i.e. the cell's own ID -/+ 1,
\* -/+ nx, -/+ nx*ny, and is masked exactly when that cell does not exist.
C4_CellToCellIDs ==
    op = "_getCellToCellIDs" =>
      \A x \in CellBand(mesh), d \in 0..5 :
        LET c == CellAt(mesh, x[1], x[2], x[3])
            nb == Neighbour(x, d)
        IN  /\ ret.mask[d][c] <=> nb \notin CellBand(mesh)
            /\ nb \in CellBand(mesh) =>
                  /\ ret.data[d][c] = CellAt(mesh, nb[1], nb[2], nb[3])
                  /\ ret.data[d][c] = c + SignedStride(mesh, d)

\* what the six faces of a cell are: the face of cell x in direction d
CellFace(self, x, d) ==
    CASE d = 0 -> _getYZFaceIDs(self)[x[1], x[2], x[3]]
      [] d = 1 -> _getYZFaceIDs(self)[x[1] + 1, x[2], x[3]]
      [] d = 2 -> _getXZFaceIDs(self)[x[1], x[2], x[3]]
      [] d = 3 -> _getXZFaceIDs(self)[x[1], x[2] + 1, x[3]]
      [] d = 4 -> _getXYFaceIDs(self)[x[1], x[2], x[3]]
      [] d = 5 -> _getXYFaceIDs(self)[x[1], x[2], x[3] + 1]

\* C5: for every cell c and each of its six faces f, taken from the
\* cell-to-face table in the order low-X, high-X, low-Y, high-Y, low-Z,
\* high-Z, the orientation is +1 exactly when the normal of f points out of
\* c and -1 exactly when it points into c: orientation times the face normal
\* is the outward unit normal _getCellNormals gives for that direction.
C5_OrientationMatchesNormals ==
    op = "_getCellFaceOrientations" =>
      LET nor == _getFaceNormals(mesh)
          out == _getCellNormals(mesh)
          ids == _getCellFaceIDs(mesh)
      IN  \A x \in CellBand(mesh), d \in 0..5 :
            LET c == CellAt(mesh, x[1], x[2], x[3])
                f == ids[d][c]
            IN  /\ f = CellFace(mesh, x, d)
                /\ ret[d][c] \in {0 - 1, 1}
                /\ \A r \in 0..2 : ret[d][c] * nor[r][f] = out[r][d][c]
                /\ ret[d][c] = 1 <=> \A r \in 0..2 : nor[r][f] = out[r][d][c]
                /\ ret[d][c] = 0 - 1
                      <=> \A r \in 0..2 : nor[r][f] = 0 - out[r][d][c]

\* orientations of both signs have been returned: a cell of a mesh with
\* neighbours on both sides along every axis has +1 on its high faces and -1
\* on its low faces, and a cell on the low boundary has +1 on its low face
C5_Witness ==
    /\ op = "_getCellFaceOrientations"
    /\ mesh.nx >= 3 /\ mesh.ny >= 3 /\ mesh.nz >= 3
    /\ LET c == CellAt(mesh, 1, 1, 1)
       IN  /\ \A d \in {0, 2, 4} : ret[d][c] = 0 - 1
           /\ \A d \in {1, 3, 5} : ret[d][c] = 1
    /\ \A d \in 0..5 : ret[d][0] = 1

\* C6: numberOfFaces is the sum of the three band counts, and the three face
\* ID grids hold at [i][j][k] the value bandOffset + i + nx'*(j + ny'*k) over
\* the band extents (nx,ny,nz+1), (nx,ny+1,nz), (nx+1,ny,nz) with offsets 0,
\* numberOfXYFaces, numberOfXYFaces + numberOfXZFaces, so that every face ID
\* appears in exactly one band at exactly one (i, j, k).
C6_FaceIDGrids ==
    LET XYids == IF op = "_getXYFaceIDs" THEN ret ELSE _getXYFaceIDs(mesh)
        XZids == IF op = "_getXZFaceIDs" THEN ret ELSE _getXZFaceIDs(mesh)
        YZids == IF op = "_getYZFaceIDs" THEN ret ELSE _getYZFaceIDs(mesh)
        places(f) == {<<"XY", x>> : x \in {y \in XYBand(mesh) : XYids[y] = f}}
                     \cup {<<"XZ", x>> : x \in {y \in XZBand(mesh) : XZids[y] = f}}
                     \cup {<<"YZ", x>> : x \in {y \in YZBand(mesh) : YZids[y] = f}}
    IN  op \in {"_getXYFaceIDs", "_getXZFaceIDs", "_getYZFaceIDs"} =>
          /\ mesh.numberOfFaces = mesh.numberOfXYFaces + mesh.numberOfXZFaces
                                    + mesh.numberOfYZFaces
          /\ DOMAIN XYids = XYBand(mesh)
          /\ DOMAIN XZids = XZBand(mesh)
          /\ DOMAIN YZids = YZBand(mesh)
          /\ \A x \in XYBand(mesh) :
                XYids[x] = encode(x[1], x[2], x[3], mesh.nx, mesh.ny)
          /\ \A x \in XZBand(mesh) :
                XZids[x] = mesh.numberOfXYFaces
                           + encode(x[1], x[2], x[3], mesh.nx, mesh.ny + 1)
          /\ \A x \in YZBand(mesh) :
                YZids[x] = mesh.numberOfXYFaces + mesh.numberOfXZFaces
                           + encode(x[1], x[2], x[3], mesh.nx + 1, mesh.ny)
          /\ \A f \in FaceIDs(mesh) : Cardinality(places(f)) = 1

\* the YZ grid of a mesh with different extents along the three axes has
\* been returned, and its last entry is the last face ID
C6_Witness ==
    /\ op = "_getYZFaceIDs"
    /\ mesh.nx = 3 /\ mesh.ny = 2 /\ mesh.nz = 1
    /\ ret[0, 0, 0] = 21
    /\ ret[0, 1, 0] = 25
    /\ ret[3, 1, 0] = mesh.numberOfFaces - 1

\* the spacing along the axis of direction d
AxisSpacing(self, d) ==
    CASE d \in {0, 1} -> self.dx
      [] d \in {2, 3} -> self.dy
      [] d \in {4, 5} -> self.dz

\* C7: the value _getCellToCellDistances associates with cell c and
\* direction d is the spacing along the axis of d when c has a neighbour in
\* direction d and half that spacing when c is on the domain boundary in
\* direction d, for a mesh of any number of cells.  The value of (c, d) is
\* read either way the returned 2-D array can be indexed: [d][c], the layout
\* of the other per-cell tables, or [c][d].
C7_CellToCellDistances ==
    op = "_getCellToCellDistances" =>
      LET want(x, d) == IF Neighbour(x, d) \in CellBand(mesh)
                        THEN AxisSpacing(mesh, d)
                        ELSE half(AxisSpacing(mesh, d))
          id(x) == CellAt(mesh, x[1], x[2], x[3])
      IN  \/ \A x \in CellBand(mesh), d \in 0..5 :
                /\ d \in DOMAIN ret
                /\ id(x) \in DOMAIN ret[d]
                /\ ret[d][id(x)] = want(x, d)
          \/ \A x \in CellBand(mesh), d \in 0..5 :
                /\ id(x) \in DOMAIN ret
                /\ d \in DOMAIN ret[id(x)]
                /\ ret[id(x)][d] = want(x, d)

\* C10: every face normal is a unit axis vector: (0,0,+1) for XY faces,
\* (0,+1,0) for XZ faces, (+1,0,0) for YZ faces, with the sign negative on
\* layer 0 along the normal axis only (the last layer keeps the positive
\* sign).  The column of a face is at its linear face ID.
C10_FaceNormals ==
    op = "_getFaceNormals" =>
      LET col(f) == <<ret[0][f], ret[1][f], ret[2][f]>>
      IN  /\ \A r \in 0..2 : DOMAIN ret[r] = FaceIDs(mesh)
          /\ \A x \in XYBand(mesh) :
                col(_getXYFaceIDs(mesh)[x])
                  = IF x[3] = 0 THEN <<0, 0, 0 - 1>> ELSE <<0, 0, 1>>
          /\ \A x \in XZBand(mesh) :
                col(_getXZFaceIDs(mesh)[x])
                  = IF x[2] = 0 THEN <<0, 0 - 1, 0>> ELSE <<0, 1, 0>>
          /\ \A x \in YZBand(mesh) :
                col(_getYZFaceIDs(mesh)[x])
                  = IF x[1] = 0 THEN <<0 - 1, 0, 0>> ELSE <<1, 0, 0>>

\* the normals of a mesh with first-layer, inner and last-layer faces have
\* been returned: negative on layer 0, positive on the last layer
C10_Witness ==
    /\ op = "_getFaceNormals"
    /\ mesh.nx >= 2 /\ mesh.ny >= 2 /\ mesh.nz >= 2
    /\ ret[2][_getXYFaceIDs(mesh)[0, 0, 0]] = 0 - 1
    /\ ret[2][_getXYFaceIDs(mesh)[0, 0, mesh.nz]] = 1
    /\ ret[1][_getXZFaceIDs(mesh)[0, 1, 0]] = 1
    /\ ret[0][_getYZFaceIDs(mesh)[0, 0, 0]] = 0 - 1

\* the point getCellCenters returns for cell c
CenterOf(self, c) ==
    [r \in 0..2 |-> getCellCenters(self)[r][c]]

\* C8: _getNearestCellID called with the point getCellCenters returns for a
\* cell c returns c, for every mesh size, spacing and origin.
C8_NearestOfCenter ==
    op = "_getNearestCellID" =>
      \A c \in CellIDs(mesh) : arg = CenterOf(mesh, c) => ret = c

\* the center of the last cell of a mesh with at least three cells along
\* every axis and a non-zero origin has been located
C8_Witness ==
    /\ op = "_getNearestCellID"
    /\ mesh.nx >= 3 /\ mesh.ny >= 3 /\ mesh.nz >= 3
    /\ mesh.origin # vec(0, 0, 0)
    /\ arg = CenterOf(mesh, mesh.numberOfCells - 1)
    /\ ret = mesh.numberOfCells - 1

\* the per-axis index of cell ID c: axis 1, 2, 3 = i, j, k
AxisIndex(self, c, a) ==
    CASE a = 1 -> c % self.nx
      [] a = 2 -> (c \div self.nx) % self.ny
      [] a = 3 -> c \div (self.nx * self.ny)

AxisCount(self, a) ==
    <<self.nx, self.ny, self.nz>>[a]

\* C9: for every point, inside or outside the domain, _getNearestCellID
\* returns a cell ID in 0..numberOfCells-1 whose index on each axis is the
\* offset of the point from the center of cell 0, in units of the spacing,
\* rounded to a nearest integer r and clamped into 0..count-1; a point
\* beyond the low (high) end of an axis gets the first (last) layer.
C9_NearestClamped ==
    op = "_getNearestCellID" =>
      /\ ret \in CellIDs(mesh)
      /\ \A a \in 1..3 :
            LET n == AxisCount(mesh, a)
                d == AxisSpacing(mesh, 2 * (a - 1))
                lo == mesh.origin[a - 1]
                off == arg[a - 1] - (lo + half(d))
                idx == AxisIndex(mesh, ret, a)
            IN  /\ \E r \in {off \div d, off \div d + 1} :
                      /\ 2 * (off - r * d) <= d
                      /\ 2 * (r * d - off) <= d
                      /\ idx = IF r < 0 THEN 0 ELSE IF r > n - 1 THEN n - 1 ELSE r
                /\ arg[a - 1] < lo => idx = 0
                /\ arg[a - 1] > lo + n * d => idx = n - 1

\* a point beyond the high end of x, beyond the low end of y and inside the
\* domain along z has been located in a mesh of two cells along every axis
C9_Witness ==
    /\ op = "_getNearestCellID"
    /\ mesh.nx = 2 /\ mesh.ny = 2 /\ mesh.nz = 2
    /\ arg[0] > mesh.origin[0] + mesh.nx * mesh.dx
    /\ arg[1] < mesh.origin[1]
    /\ arg[2] > mesh.origin[2] + mesh.dz
    /\ arg[2] < mesh.origin[2] + 2 * mesh.dz
    /\ ret = CellAt(mesh, 1, 0, 1)

\* the linear ID of the vertex at lattice coordinate x
VertexAt(self, x) ==
    encode(x[1], x[2], x[3], self.nx + 1, self.ny + 1)

\* what C11 says of the face of ID f whose four corners are the vertices at
\* the lattice coordinates corners[1..4] and whose center is at the multiples
\* twice[1..3] of half the spacings: cen is the table of face centers
C11_Face(cen, self, f, corners, twice) ==
    LET vc == getVertexCoords(self)
        fv == _getFaceVertexIDs(self)
        v(s) == VertexAt(self, corners[s])
    IN  /\ \A s \in 1..4 : fv[s - 1][f] = v(s)
        /\ \A r \in 0..2 :
              4 * cen[r][f] = vc[r][v(1)] + vc[r][v(2)] + vc[r][v(3)] + vc[r][v(4)]
        /\ cen[0][f] = twice[1] * half(self.dx) + self.origin[0]
        /\ cen[1][f] = twice[2] * half(self.dy) + self.origin[1]
        /\ cen[2][f] = twice[3] * half(self.dz) + self.origin[2]

\* C11: for every mesh and origin, the center getFaceCenters returns for a
\* face is the arithmetic mean of the coordinates getVertexCoords returns for
\* its four corner vertices: in-plane coordinates (index + 0.5) * spacing and
\* normal-axis coordinate index * spacing, in the frame of the vertices (the
\* origin added).  The column of a face is at its linear face ID.
C11_FaceCenters ==
    op = "getFaceCenters" =>
      /\ \A x \in XYBand(mesh) :
            C11_Face(ret, mesh, _getXYFaceIDs(mesh)[x],
                     << <<x[1], x[2], x[3]>>, <<x[1] + 1, x[2], x[3]>>,
                        <<x[1] + 1, x[2] + 1, x[3]>>, <<x[1], x[2] + 1, x[3]>> >>,
                     <<2 * x[1] + 1, 2 * x[2] + 1, 2 * x[3]>>)
      /\ \A x \in XZBand(mesh) :
            C11_Face(ret, mesh, _getXZFaceIDs(mesh)[x],
                     << <<x[1], x[2], x[3]>>, <<x[1] + 1, x[2], x[3]>>,
                        <<x[1] + 1, x[2], x[3] + 1>>, <<x[1], x[2], x[3] + 1>> >>,
                     <<2 * x[1] + 1, 2 * x[2], 2 * x[3] + 1>>)
      /\ \A x \in YZBand(mesh) :
            C11_Face(ret, mesh, _getYZFaceIDs(mesh)[x],
                     << <<x[1], x[2], x[3]>>, <<x[1], x[2] + 1, x[3]>>,
                        <<x[1], x[2] + 1, x[3] + 1>>, <<x[1], x[2], x[3] + 1>> >>,
                     <<2 * x[1], 2 * x[2] + 1, 2 * x[3] + 1>>)

\* the lattice coordinate of the corner of cell x in slot s of the fixed
\* corner order
Corner(x, s) ==
    CASE s = 0 -> <<x[1] + 1, x[2] + 1, x[3] + 1>>
      [] s = 1 -> <<x[1], x[2] + 1, x[3] + 1>>
      [] s = 2 -> <<x[1] + 1, x[2], x[3] + 1>>
      [] s = 3 -> <<x[1], x[2], x[3] + 1>>
      [] s = 4 -> <<x[1] + 1, x[2] + 1, x[3]>>
      [] s = 5 -> <<x[1], x[2] + 1, x[3]>>
      [] s = 6 -> <<x[1] + 1, x[2], x[3]>>
      [] s = 7 -> <<x[1], x[2], x[3]>>

\* C12: for every cell at (i, j, k), _getCellVertexIDs holds 8 pairwise
\* distinct vertex IDs in 0..numberOfVertices-1, slot s being the vertex
\* V(a, b, c) = a + (nx+1)*(b + (ny+1)*c) of the corner the fixed order
\* assigns to s: V(i+1,j+1,k+1), V(i,j+1,k+1), V(i+1,j,k+1), V(i,j,k+1),
\* V(i+1,j+1,k), V(i,j+1,k), V(i+1,j,k), V(i,j,k).
C12_CellVertexIDs ==
    op = "_getCellVertexIDs" =>
      /\ DOMAIN ret = 0..7
      /\ \A x \in CellBand(mesh) :
            LET c == CellAt(mesh, x[1], x[2], x[3])
            IN  /\ \A s \in 0..7 :
                      /\ ret[s][c] = VertexAt(mesh, Corner(x, s))
                      /\ ret[s][c] \in VertexIDs(mesh)
                /\ Cardinality({ret[s][c] : s \in 0..7}) = 8

\* the table of a mesh with different extents along the three axes has been
\* returned: the last cell's slot 0 is the last vertex, the first cell's slot
\* 7 the first vertex
C12_Witness ==
    /\ op = "_getCellVertexIDs"
    /\ mesh.nx = 1 /\ mesh.ny = 2 /\ mesh.nz = 3
    /\ ret[0][mesh.numberOfCells - 1] = mesh.numberOfVertices - 1
    /\ ret[7][0] = 0
    /\ <<ret[0][0], ret[1][0], ret[2][0], ret[3][0]>> = <<9, 8, 7, 6>>

\* C13: _translate(t) returns a mesh with the same nx, ny, nz and spacings
\* whose getCellCenters value for every cell c is the original mesh's cell
\* center of c plus t.
C13_Translate ==
    op = "_translate" =>
      /\ <<ret.nx, ret.ny, ret.nz>> = <<mesh.nx, mesh.ny, mesh.nz>>
      /\ <<ret.dx, ret.dy, ret.dz>> = <<mesh.dx, mesh.dy, mesh.dz>>
      /\ DOMAIN getCellCenters(ret)[0] = CellIDs(mesh)
      /\ \A c \in CellIDs(mesh), r \in 0..2 :
            getCellCenters(ret)[r][c] = getCellCenters(mesh)[r][c] + arg[r]

\* a mesh of several cells along every axis with a non-zero origin has been
\* translated by a non-zero vector, and its last cell center has moved
C13_Witness ==
    /\ op = "_translate"
    /\ mesh.nx >= 2 /\ mesh.ny >= 2 /\ mesh.nz >= 2
    /\ mesh.origin # vec(0, 0, 0)
    /\ arg = vec(0 - 1, 2, 0 - 3)
    /\ CenterOf(ret, ret.numberOfCells - 1)
          # CenterOf(mesh, mesh.numberOfCells - 1)

\* C14: mesh * s, s positive, returns a mesh with the same nx, ny, nz, the
\* same element counts and the same ID tables (face-to-cell, cell-to-cell,
\* exterior and interior faces), whose face areas are s^2 times, cell
\* volumes s^3 times, and face cell-distances and cell-to-cell distances s
\* times the original values, element by element.
C14_Scale ==
    op = "__mul__" =>
      LET s == arg
      IN  /\ <<ret.nx, ret.ny, ret.nz>> = <<mesh.nx, mesh.ny, mesh.nz>>
          /\ ret.numberOfVertices = mesh.numberOfVertices
          /\ ret.numberOfFaces = mesh.numberOfFaces
          /\ ret.numberOfCells = mesh.numberOfCells
          /\ <<ret.numberOfXYFaces, ret.numberOfXZFaces, ret.numberOfYZFaces>>
                = <<mesh.numberOfXYFaces, mesh.numberOfXZFaces,
                    mesh.numberOfYZFaces>>
          /\ getFaceCellIDs(ret) = getFaceCellIDs(mesh)
          /\ _getCellToCellIDs(ret) = _getCellToCellIDs(mesh)
          /\ getExteriorFaces(ret) = getExteriorFaces(mesh)
          /\ getInteriorFaces(ret) = getInteriorFaces(mesh)
          /\ \A f \in FaceIDs(mesh) :
                /\ _getFaceAreas(ret)[f] = s * s * _getFaceAreas(mesh)[f]
                /\ _getCellDistances(ret)[f] = s * _getCellDistances(mesh)[f]
          /\ \A c \in CellIDs(mesh) :
                getCellVolumes(ret)[c] = s * s * s * getCellVolumes(mesh)[c]
          /\ LET old == _getCellToCellDistances(mesh)
                 new == _getCellToCellDistances(ret)
             IN  /\ DOMAIN new = DOMAIN old
                 /\ \A a \in DOMAIN old :
                       /\ DOMAIN new[a] = DOMAIN old[a]
                       /\ \A b \in DOMAIN old[a] : new[a][b] = s * old[a][b]

\* a mesh with interior faces along every axis has been multiplied by a
\* factor other than 1, and its areas, volumes and distances have changed
C14_Witness ==
    /\ op = "__mul__"
    /\ arg = 3
    /\ mesh.nx >= 2 /\ mesh.ny >= 2 /\ mesh.nz >= 2
    /\ _getFaceAreas(ret)[0] = 9 * mesh.dx * mesh.dy
    /\ getCellVolumes(ret)[0] = 27 * mesh.dx * mesh.dy * mesh.dz
    /\ _getCellDistances(ret)[ret.numberOfFaces - 1] = 3 * half(mesh.dx)

\* the face area of direction d
AxisArea(self, d) ==
    CASE d \in {0, 1} -> self.dy * self.dz
      [] d \in {2, 3} -> self.dx * self.dz
      [] d \in {4, 5} -> self.dx * self.dy

\* the outward unit normal of direction d (-X, +X, -Y, +Y, -Z, +Z)
Outward(d) ==
    CASE d = 0 -> <<0 - 1, 0, 0>>
      [] d = 1 -> <<1, 0, 0>>
      [] d = 2 -> <<0, 0 - 1, 0>>
      [] d = 3 -> <<0, 1, 0>>
      [] d = 4 -> <<0, 0, 0 - 1>>
      [] d = 5 -> <<0, 0, 1>>

\* C15: for every cell, the six per-cell face-area vectors of
\* _getCellAreaProjections (the outward unit normal of -X, +X, -Y, +Y, -Z, +Z
\* times the area dy*dz, dy*dz, dx*dz, dx*dz, dx*dy, dx*dy) sum to the zero
\* vector.
C15_ClosedSurface ==
    op = "_getCellAreaProjections" =>
      \A c \in CellIDs(mesh) :
        /\ \A d \in 0..5, r \in 0..2 :
              ret[r][d][c] = Outward(d)[r + 1] * AxisArea(mesh, d)
        /\ \A r \in 0..2 :
              ret[r][0][c] + ret[r][1][c] + ret[r][2][c]
                + ret[r][3][c] + ret[r][4][c] + ret[r][5][c] = 0

\* the projections of a mesh of several cells have been returned: the six
\* vectors of the last cell are non-zero and the three areas differ
C15_Witness ==
    /\ op = "_getCellAreaProjections"
    /\ mesh.numberOfCells > 1
    /\ LET c == mesh.numberOfCells - 1
       IN  /\ ret[0][0][c] < 0 /\ ret[0][1][c] > 0
           /\ ret[1][2][c] < 0 /\ ret[1][3][c] > 0
           /\ ret[2][4][c] < 0 /\ ret[2][5][c] > 0
           /\ Cardinality({ret[0][1][c], ret[1][3][c], ret[2][5][c]}) = 3

\* C16: every entry of _getCellToCellIDsFilled for cell c and direction d is
\* the ID of an existing cell: c itself exactly where c has no neighbour in
\* direction d (the slot is masked in _getCellToCellIDs), and otherwise the
\* ID of the lattice-adjacent cell in direction d, which differs from c.
C16_CellToCellIDsFilled ==
    op = "_getCellToCellIDsFilled" =>
      \A x \in CellBand(mesh), d \in 0..5 :
        LET c == CellAt(mesh, x[1], x[2], x[3])
            nb == Neighbour(x, d)
        IN  /\ ret[d][c] \in CellIDs(mesh)
            /\ _getCellToCellIDs(mesh).mask[d][c] <=> nb \notin CellBand(mesh)
            /\ nb \notin CellBand(mesh) => ret[d][c] = c
            /\ nb \in CellBand(mesh) =>
                  /\ ret[d][c] = CellAt(mesh, nb[1], nb[2], nb[3])
                  /\ ret[d][c] # c

\* C17: constructing a UniformGrid3D with a non-positive spacing (dx, dy or
\* dz <= 0) or a negative cell count (nx, ny or nz < 0) fails fast: the
\* constructor reports an error to the caller and yields no mesh, and the
\* values are neither accepted nor clamped.
C17_ConstructorFailsFast ==
    (/\ op = "__init__"
     /\ \/ arg.dx <= 0 \/ arg.dy <= 0 \/ arg.dz <= 0
        \/ arg.nx < 0 \/ arg.ny < 0 \/ arg.nz < 0)
      => ret = "error"

\* the dot product and the cross product of two 3-vectors <<x, y, z>>
Dot(u, v) ==
    u[1] * v[1] + u[2] * v[2] + u[3] * v[3]

Cross(u, v) ==
    <<u[2] * v[3] - u[3] * v[2],
      u[3] * v[1] - u[1] * v[3],
      u[1] * v[2] - u[2] * v[1]>>

\* C18: for every face, the tangents t1 = _getFaceTangents1 and
\* t2 = _getFaceTangents2 and the normal n = _getFaceNormals form a
\* right-handed orthonormal triple: the three are unit vectors, pairwise
\* orthogonal, and t1 x t2 = n, in all three bands, on boundary and interior
\* faces alike.
C18_RightHandedTangents ==
    LET tan1 == IF op = "_getFaceTangents1" THEN ret ELSE _getFaceTangents1(mesh)
        tan2 == IF op = "_getFaceTangents2" THEN ret ELSE _getFaceTangents2(mesh)
        nor == _getFaceNormals(mesh)
        col(A, f) == <<A[0][f], A[1][f], A[2][f]>>
    IN  op \in {"_getFaceTangents1", "_getFaceTangents2"} =>
          \A f \in FaceIDs(mesh) :
            LET t1 == col(tan1, f)
                t2 == col(tan2, f)
                n == col(nor, f)
            IN  /\ Dot(t1, t1) = 1 /\ Dot(t2, t2) = 1 /\ Dot(n, n) = 1
                /\ Dot(t1, t2) = 0 /\ Dot(t1, n) = 0 /\ Dot(t2, n) = 0
                /\ Cross(t1, t2) = n

\* the index of cell x along the axis of direction d
AlongAxis(x, d) ==
    CASE d \in {0, 1} -> x[1]
      [] d \in {2, 3} -> x[2]
      [] d \in {4, 5} -> x[3]

\* C19 as stated: the orientation of each of a cell's 6 faces is +1 if the
\* face's positive-side neighbour (slot 1 of getFaceCellIDs, the slot
\* computed as i + nx*(j + ny*k) in the band's index space, from which slot
\* 0 is derived by subtracting the stride) equals the cell, else -1.  A
\* masked slot 1 is read either as holding no cell or as holding the value
\* computed for it.
C19_OrientationByPositiveSide ==
    op = "_getCellFaceOrientations" =>
      LET fc == getFaceCellIDs(mesh)
          ids == _getCellFaceIDs(mesh)
      IN  \/ \A c \in CellIDs(mesh), d \in 0..5 :
                ret[d][c] = IF /\ ~fc.mask[1][ids[d][c]]
                               /\ fc.data[1][ids[d][c]] = c
                            THEN 1 ELSE 0 - 1
          \/ \A c \in CellIDs(mesh), d \in 0..5 :
                ret[d][c] = IF fc.data[1][ids[d][c]] = c THEN 1 ELSE 0 - 1

\* C19 as amended: the orientation of each of a cell's 6 faces is +1 if the
\* face's negative-side neighbour (slot 0 of getFaceCellIDs: slot 1 minus the
\* stride, or the face's own cell on layer 0) equals the cell, else -1; that
\* is +1 on the three high faces of every cell and on the low faces that lie
\* on layer 0 of their axis, -1 on the other low faces.
C19_OrientationByNegativeSide ==
    op = "_getCellFaceOrientations" =>
      LET fc == getFaceCellIDs(mesh)
          ids == _getCellFaceIDs(mesh)
      IN  \A x \in CellBand(mesh), d \in 0..5 :
            LET c == CellAt(mesh, x[1], x[2], x[3])
                f == ids[d][c]
            IN  /\ ~fc.mask[0][f]
                /\ ret[d][c] = IF fc.data[0][f] = c THEN 1 ELSE 0 - 1
                /\ ret[d][c] = IF d \in {1, 3, 5} \/ AlongAxis(x, d) = 0
                                THEN 1 ELSE 0 - 1

\* the orientations of a mesh of three cells along every axis have been
\* returned: the middle cell has -1 on its low faces, whose slot 1 is the
\* cell itself, and +1 on its high faces, whose slot 1 is another cell
C19_Witness ==
    /\ op = "_getCellFaceOrientations"
    /\ mesh.nx = 3 /\ mesh.ny = 3 /\ mesh.nz = 3
    /\ LET c == CellAt(mesh, 1, 1, 1)
           fc == getFaceCellIDs(mesh)
           ids == _getCellFaceIDs(mesh)
       IN  /\ \A d \in {0, 2, 4} :
                 /\ ret[d][c] = 0 - 1
                 /\ fc.data[1][ids[d][c]] = c
                 /\ fc.data[0][ids[d][c]] # c
           /\ \A d \in {1, 3, 5} :
                 /\ ret[d][c] = 1
                 /\ fc.data[1][ids[d][c]] # c
                 /\ fc.data[0][ids[d][c]] = c

\* what C20 says of the face of ID f of layer m in 0..count along its
\* normal axis, d being the spacing along that axis and axis its row in the
\* table of cell centers: dis is the table of distances
C20_Face(dis, self, f, m, count, d, axis) ==
    LET fc == getFaceCellIDs(self)
        cen == getCellCenters(self)
        exterior == getExteriorFaces(self)[f]
        interior == getInteriorFaces(self)[f]
    IN  /\ exterior <=> (m = 0 \/ m = count)
        /\ exterior => dis[f] = half(d)
        /\ interior => /\ dis[f] = d
                       /\ dis[f] = cen[axis][fc.data[1][f]]
                                      - cen[axis][fc.data[0][f]]
        /\ exterior \/ interior

\* C20: for every mesh size and every face f, _getCellDistances at f's
\* linear face ID is half the spacing along f's normal axis (dz for XY, dy
\* for XZ, dx for YZ faces) when f is an exterior face (first or last layer
\* along its normal axis) and the full spacing when f is an interior face:
\* the distance between the centers of its two neighbouring cells.
C20_CellDistances ==
    op = "_getCellDistances" =>
      /\ DOMAIN ret = FaceIDs(mesh)
      /\ \A x \in XYBand(mesh) :
            C20_Face(ret, mesh, _getXYFaceIDs(mesh)[x], x[3], mesh.nz,
                     mesh.dz, 2)
      /\ \A x \in XZBand(mesh) :
            C20_Face(ret, mesh, _getXZFaceIDs(mesh)[x], x[2], mesh.ny,
                     mesh.dy, 1)
      /\ \A x \in YZBand(mesh) :
            C20_Face(ret, mesh, _getYZFaceIDs(mesh)[x], x[1], mesh.nx,
                     mesh.dx, 0)

\* the distances of a mesh with different extents along the three axes and
\* interior faces in every band have been returned: full spacing on an
\* interior face of each band, half spacing on the last face
C20_Witness ==
    /\ op = "_getCellDistances"
    /\ mesh.nx = 3 /\ mesh.ny = 2 /\ mesh.nz >= 2
    /\ ret[_getXYFaceIDs(mesh)[2, 1, 1]] = mesh.dz
    /\ ret[_getXZFaceIDs(mesh)[2, 1, 1]] = mesh.dy
    /\ ret[_getYZFaceIDs(mesh)[2, 1, 1]] = mesh.dx
    /\ ret[_getYZFaceIDs(mesh)[0, 1, 1]] = half(mesh.dx)
    /\ ret[mesh.numberOfFaces - 1] = half(mesh.dx)

\* the claim of C21 on the face f of layer m along its normal axis, on which
\* the spacing is d: the layers run from 0 to count.  The face lies in the
\* plane m * d past the origin; ratio holds multiples of 0.5
C21_Face(ratio, self, f, m, count, d, axis) ==
    LET fc == getFaceCellIDs(self)
        cen == getCellCenters(self)
        plane == self.origin[axis] + m * d
        toCenter == plane - cen[axis][fc.data[0][f]]
        faceToCell == IF toCenter < 0 THEN 0 - toCenter ELSE toCenter
        exterior == getExteriorFaces(self)[f]
        interior == getInteriorFaces(self)[f]
    IN  /\ faceToCell = half(d)
        /\ ratio[f] * _getCellDistances(self)[f] = 2 * faceToCell
        /\ interior => ratio[f] = 1
        /\ exterior => ratio[f] = 2
        /\ exterior \/ interior

\* C21: for every mesh size and every face f, _getFaceToCellDistanceRatio at
\* f's linear face ID is the distance from f to the center of its slot-0
\* neighbour cell, which is half the spacing along f's normal axis, divided
\* by _getCellDistances at f: 0.5 for every interior face and 1.0 for every
\* exterior face.
C21_FaceToCellDistanceRatio ==
    op = "_getFaceToCellDistanceRatio" =>
      /\ DOMAIN ret = FaceIDs(mesh)
      /\ \A x \in XYBand(mesh) :
            C21_Face(ret, mesh, _getXYFaceIDs(mesh)[x], x[3], mesh.nz,
                     mesh.dz, 2)
      /\ \A x \in XZBand(mesh) :
            C21_Face(ret, mesh, _getXZFaceIDs(mesh)[x], x[2], mesh.ny,
                     mesh.dy, 1)
      /\ \A x \in YZBand(mesh) :
            C21_Face(ret, mesh, _getYZFaceIDs(mesh)[x], x[1], mesh.nx,
                     mesh.dx, 0)

\* the ratios of a mesh with different extents along the three axes, a
\* non-zero origin and interior faces in every band have been returned: 0.5
\* on an interior face of each band, 1 on a first and on the last face
C21_Witness ==
    /\ op = "_getFaceToCellDistanceRatio"
    /\ mesh.nx = 3 /\ mesh.ny = 2 /\ mesh.nz >= 2
    /\ mesh.origin[0] # 0
    /\ ret[_getXYFaceIDs(mesh)[2, 1, 1]] = 1
    /\ ret[_getXZFaceIDs(mesh)[2, 1, 1]] = 1
    /\ ret[_getYZFaceIDs(mesh)[2, 1, 1]] = 1
    /\ ret[_getXYFaceIDs(mesh)[2, 1, 0]] = 2
    /\ ret[mesh.numberOfFaces - 1] = 2

\* C22: for a mesh of any size (not only one with exactly 6 cells) and any
\* face variable, both computation paths of _AddOverFacesVariable,
\* _calcValuePy and _calcValueIn, give the same value for every cell c: the
\* sum over exactly the six faces f incident to c of orientation(c, f) *
\* faceVariable(f), divided by the volume of c, with the cell-to-face table
\* and the orientations taken from the mesh's _getCellFaceIDs and
\* _getCellFaceOrientations.
C22_AddOverFaces ==
    /\ op # "_calcValueIn fault"
    /\ op \in {"_calcValuePy", "_calcValueIn"} =>
          /\ DOMAIN ret = CellIDs(mesh)
          /\ \A x \in CellBand(mesh) :
                LET c == CellAt(mesh, x[1], x[2], x[3])
                    ids == _getCellFaceIDs(mesh)
                    orientations == _getCellFaceOrientations(mesh)
                    want == sumTo([d \in 0..5 |->
                                orientations[d][c] * arg[ids[d][c]]], 6)
                    volume == mesh.dx * mesh.dy * mesh.dz
                IN  /\ \A d \in 0..5 : ids[d][c] = CellFace(mesh, x, d)
                    /\ ret[c].den # 0
                    /\ ret[c].num * volume = want * ret[c].den

\* what the claim of C23 says is stored for the argument a: its value, as a
\* plain number when a is plain or in the unit of dx
C23_Stored(stored, a, dx) ==
    /\ stored.value = a.value
    /\ a.unit \in {0, dx.unit} => stored.unit = 0

\* C23: for every combination of constructor arguments, whether dx, dy, dz
\* are plain numbers or carry physical units, the spacing stored as self.dz
\* is derived from the dz argument (reduced to a plain number in dx's unit),
\* never from the dy or dx argument; likewise self.dx and self.dy are
\* derived from dx and dy.
C23_SpacingsFromOwnArgument ==
    op = "__init__" =>
      /\ C23_Stored(mesh.dx, arg.dx, arg.dx)
      /\ C23_Stored(mesh.dy, arg.dy, arg.dx)
      /\ C23_Stored(mesh.dz, arg.dz, arg.dx)

====
